---- MODULE Spec2Model ----
(***************************************************************************)
(* FitX training sessions: the trainingSessions collection, the            *)
(* training-sessions HTTP handler (GET / POST / PUT), the derivation of    *)
(* the timer status from a session document, and the cleanup of paused     *)
(* sessions.  Instants are counted in ticks; TicksPerSec ticks make one    *)
(* second, so that Math.floor(ms / 1000) is a real rounding.               *)
(***************************************************************************)
EXTENDS Integers, Sequences, FiniteSets, TLC

VARIABLES
    sessions,   \* the trainingSessions collection; a document's _id is its index
    now,        \* the server clock (getCurrentTime), in ticks
    response,   \* the HTTP response to the most recent request
    inflight,   \* POST handlers suspended between findOne and insertOne
    autoPauseTimer, \* the client's idle timeout (WorkoutTracker): TRUE while armed
    summaries,      \* the daily-summary upserts made so far, in order
    currentSession, \* the client's copy of its session (WorkoutTracker state)
    handlers,       \* the client's event handlers suspended at an await
    timeouts,       \* the idle timeouts the client has set, in order; a handle is an index
    timerHandle,    \* the handle the component state holds (setAutoPauseTimer), 0 for null
    clientTimer,    \* the client's countdown display (WorkoutTracker state)
    clientLastRepAt, \* the instant of the last rep addition as the client keeps it
    syncInterval,   \* the reconciliation interval of startTimerSync and what its closure holds
    timerExpiredModals \* how often the expiry modal has been raised in this session

\* the state of the WorkoutTracker component beyond the idle flag
clientVars == <<currentSession, handlers, timeouts, timerHandle, clientTimer,
               clientLastRepAt, syncInterval,
               timerExpiredModals>>

vars == <<sessions, now, response, inflight, autoPauseTimer, summaries,
          currentSession, handlers, timeouts, timerHandle, clientTimer,
          clientLastRepAt, syncInterval,
          timerExpiredModals>>

---------------------------------------------------------------------------
(* Bounds of the model *)

MaxTime == 4
MaxSegments == 3
MaxSessions == 1
TicksPerSec == 2
TicksPerDay == 4
TimerLen == 1
MaxExtra == 1
MaxRemain == 1
MaxCompleted == 1
NumUsers == 1
MaxInflight == 2
MaxRaceSessions == 2
NumCallers == 2
MaxSummaries == 3
MaxHandlers == 2
ClientGoal == 3
MaxReps == 2
MaxTimers == 3
IdleTimeout == 2
SyncPeriod == 2
MaxCount == 3
OutageEnd == 2
MaxSeconds == 6

(* JavaScript null / undefined / an absent field *)
NULL == -1

Users == 1..NumUsers
SessionIds == 1..MaxSessions

---------------------------------------------------------------------------
(* Values *)

\* an absent pausedTimerState / resumeTimerOverride / clientTimerState
NoTimerState == [remainTime |-> NULL, isExpired |-> FALSE, extraTime |-> NULL, at |-> NULL]

\* the states resumeToLastActivity computes for the last rep: Math.max(0, ...) leaves no overtime
LastRepStates == {[remainTime |-> r, isExpired |-> r <= 0, extraTime |-> 0] : r \in 0..MaxRemain}

\* calculateTimerStatus returning null
NoTimer == [remainTime |-> NULL, timerExpired |-> FALSE, extraTime |-> NULL]

\* the timer states a client display can hold: counting down, or expired with overtime
ClientTimerStates ==
    {[remainTime |-> r, isExpired |-> FALSE, extraTime |-> 0] : r \in 1..MaxRemain}
    \cup {[remainTime |-> 0, isExpired |-> TRUE, extraTime |-> x] : x \in 1..MaxExtra}

\* Math.floor(ms / 1000)
Seconds(d) == d \div TicksPerSec

\* the calendar day of an instant (getDate / getMonth / getFullYear)
DayOf(t) == t \div TicksPerDay

isNewDay(d1, d2) == DayOf(d1) # DayOf(d2)

Last(s) == s[Len(s)]

RECURSIVE SumDurations(_)
SumDurations(segs) ==
    IF segs = <<>> THEN 0
    ELSE LET seg == Head(segs) IN
         (IF seg.start # NULL /\ seg.end # NULL THEN seg.end - seg.start ELSE 0)
         + SumDurations(Tail(segs))

calculateActualWorkoutDuration(segments) ==
    IF Len(segments) = 0 THEN 0 ELSE SumDurations(segments)

(* the paused seconds the general case of calculateTimerStatus collects from
   the segment list: the gap after each closed segment, or the running pause
   after the last one *)
RECURSIVE PausedTimeFrom(_, _, _)
PausedTimeFrom(session, t, i) ==
    IF i > Len(session.trainingSegments) THEN 0
    ELSE LET seg == session.trainingSegments[i]
             here ==
                 IF seg.start # NULL /\ seg.end # NULL
                 THEN IF i + 1 <= Len(session.trainingSegments)
                      THEN LET nxt == session.trainingSegments[i + 1] IN
                           IF nxt.start # NULL THEN Seconds(nxt.start - seg.end) ELSE 0
                      ELSE IF session.status = "paused" /\ session.pausedAt # NULL
                           THEN Seconds(t - session.pausedAt)
                           ELSE 0
                 ELSE 0
         IN here + PausedTimeFrom(session, t, i + 1)

TimerResult(remaining) ==
    IF remaining > 0
    THEN [remainTime |-> remaining, timerExpired |-> FALSE, extraTime |-> 0]
    ELSE [remainTime |-> 0, timerExpired |-> TRUE, extraTime |-> 0 - remaining]

PausedCase(session) ==
    [remainTime |-> session.pausedTimerState.remainTime,
     timerExpired |-> session.pausedTimerState.isExpired,
     extraTime |-> session.pausedTimerState.extraTime]

\* a faulty variant, to test the properties against: the override replayed verbatim, the time since it was set forgotten
OverrideCaseFrozen(session, t) == TimerResult(session.resumeTimerOverride.remainTime)

OverrideCase(session, t) ==
    TimerResult(session.resumeTimerOverride.remainTime
                - Seconds(t - session.resumeTimerOverride.at))

CurrentPauseTime(session, t) ==
    IF session.status = "paused" /\ session.pausedAt # NULL
    THEN Seconds(t - session.pausedAt)
    ELSE 0

\* a faulty variant, to test the properties against: the pause gaps of the ledger are not taken off the elapsed time
GeneralCaseNoGaps(session, t) ==
    TimerResult(session.sessionLen
                - (Seconds(t - session.startTime) - CurrentPauseTime(session, t))
                + (IF session.timerCompensation = NULL THEN 0 ELSE session.timerCompensation))

GeneralCase(session, t) ==
    LET totalElapsedSeconds ==
            Seconds(t - session.startTime)
            - (IF Len(session.trainingSegments) > 0
               THEN PausedTimeFrom(session, t, 1) ELSE 0)
            - CurrentPauseTime(session, t)
        compensation ==
            IF session.timerCompensation = NULL THEN 0 ELSE session.timerCompensation
    IN TimerResult(session.sessionLen - totalElapsedSeconds + compensation)

\* a faulty variant, to test the properties against: no paused-snapshot case, a paused session is recomputed from the ledger
calculateTimerStatusLedgerOnly(session, t) ==
    IF session.sessionLen = NULL \/ session.sessionLen = 0 \/ session.startTime = NULL
    THEN NoTimer
    ELSE IF session.resumeTimerOverride # NoTimerState /\ session.status = "active"
    THEN OverrideCase(session, t)
    ELSE GeneralCase(session, t)

calculateTimerStatus(session, t) ==
    IF session.sessionLen = NULL \/ session.sessionLen = 0 \/ session.startTime = NULL
    THEN NoTimer
    ELSE IF session.status = "paused" /\ session.pausedTimerState # NoTimerState
    THEN PausedCase(session)
    ELSE IF session.resumeTimerOverride # NoTimerState /\ session.status = "active"
    THEN OverrideCase(session, t)
    ELSE GeneralCase(session, t)

---------------------------------------------------------------------------
(* The collection *)

NonEnded(u) == {i \in 1..Len(sessions) : sessions[i].userId = u /\ sessions[i].status # "ended"}

\* updateOne({_id, userId}) matches
Matches(u, id) == id <= Len(sessions) /\ sessions[id].userId = u

NewSession(u, goal, len, t) ==
    [userId |-> u, goal |-> goal, completed |-> 0, startTime |-> t, endTime |-> NULL,
     status |-> "active", pausedAt |-> NULL,
     actualWorkoutDuration |-> 0,
     trainingSegments |-> <<[start |-> t, end |-> NULL]>>,
     sessionLen |-> len,
     pausedTimerState |-> NoTimerState, resumeTimerOverride |-> NoTimerState,
     timerCompensation |-> NULL]

NoClientTimer == [remainTime |-> NULL, isExpired |-> FALSE, extraTime |-> NULL]

\* a response: the request it answers (action, session id, the timer state the
\* request carried), the status code and the timer fields of the body
Resp(req, id, arg, code, timer) ==
    [req |-> req, id |-> id, arg |-> arg, code |-> code, timer |-> timer]

NoResponse == Resp("none", 0, NoClientTimer, 0, NoTimer)

Slots == 1..MaxInflight

Idle == [pc |-> "idle", userId |-> 0, goal |-> 0, sessionLen |-> NULL, startTime |-> NULL]

\* currentSession = null
NoSession ==
    [id |-> 0, completed |-> 0, goal |-> 0, status |-> "none", startTime |-> NULL,
     sessionLen |-> NULL]

HandlerSlots == 1..MaxHandlers

\* a handler that has returned; session, timer (the idle timeout handle) and display
\* (the countdown) are the component state of the render it was started in
NoHandler ==
    [pc |-> "done", session |-> NoSession, newCompleted |-> 0,
     timer |-> 0, display |-> NoClientTimer, lastRep |-> NoClientTimer]

\* clientTimer = null
NoDisplay == [state |-> NoClientTimer, lastSync |-> NULL, running |-> FALSE]

\* syncInterval = null
NoSync == [session |-> NoSession, hasTimer |-> FALSE, at |-> NULL]

Init ==
    /\ sessions = <<>>
    /\ now = 0
    /\ response = NoResponse
    /\ inflight = [s \in Slots |-> Idle]
    /\ autoPauseTimer = FALSE
    /\ summaries = <<>>
    /\ currentSession = NoSession
    /\ handlers = [h \in HandlerSlots |-> NoHandler]
    /\ timeouts = <<>>
    /\ timerHandle = 0
    /\ clientTimer = NoDisplay
    /\ clientLastRepAt = NULL
    /\ syncInterval = NoSync
    /\ timerExpiredModals = 0

\* the open last segment, if any, closed at t (trainingSegments.<last>.end = t)
CloseLastSegment(segs, t) ==
    IF Len(segs) > 0 /\ Last(segs).end = NULL
    THEN [segs EXCEPT ![Len(segs)].end = t]
    ELSE segs

\* $push: { trainingSegments: { start: now, end: null } }
PushSegment(segs, t) == Append(segs, [start |-> t, end |-> NULL])

\* resumeTimerOverride: { remainTime, isExpired, extraTime, setAt }
StoredTimerState(remain, cts, t) ==
    [remainTime |-> remain, isExpired |-> cts.isExpired, extraTime |-> cts.extraTime, at |-> t]

\* pausedTimerState: { remainTime, isExpired, extraTime, pausedAt }; its pausedAt is
\* never read back and is kept out of the state
StoredPausedState(remain, cts) ==
    [remainTime |-> remain, isExpired |-> cts.isExpired, extraTime |-> cts.extraTime, at |-> NULL]

UpdateProgressDoc(doc, completed, t) ==
    [doc EXCEPT !.completed = completed]

PauseDoc(doc, t, cts, displayed) ==
    [doc EXCEPT
        !.status = "paused",
        !.pausedAt = t,
        !.pausedTimerState =
            IF cts # NoClientTimer
            THEN StoredPausedState(IF displayed # NULL THEN displayed ELSE cts.remainTime, cts)
            ELSE @,
        !.trainingSegments = CloseLastSegment(@, t)]

\* a faulty variant, to test the properties against: the resume drops the override
ResumeDocClearOverride(doc, t, compensateTime) ==
    [doc EXCEPT
        !.status = "active",
        !.pausedAt = NULL,
        !.resumeTimerOverride = NoTimerState,
        !.timerCompensation =
            IF compensateTime # NULL /\ compensateTime # 0 THEN 0 + compensateTime ELSE @,
        !.trainingSegments = PushSegment(@, t)]

ResumeDoc(doc, t, compensateTime) ==
    [doc EXCEPT
        !.status = "active",
        !.pausedAt = NULL,
        !.timerCompensation =
            IF compensateTime # NULL /\ compensateTime # 0 THEN 0 + compensateTime ELSE @,
        !.trainingSegments = PushSegment(@, t)]

\* the second updateOne of a resume: { $set: { pausedTimerState: null } }
ClearPausedTimerState(doc) == [doc EXCEPT !.pausedTimerState = NoTimerState]

ResumeToLastActivityDoc(doc, t, lrts) ==
    [doc EXCEPT
        !.status = "active",
        !.pausedAt = NULL,
        !.resumeTimerOverride =
            IF lrts # NoClientTimer THEN StoredTimerState(lrts.remainTime, lrts, t) ELSE @,
        !.trainingSegments = PushSegment(@, t)]

AutoPauseDoc(doc, t, cts) ==
    [doc EXCEPT
        !.status = "paused",
        !.pausedAt = t,
        !.pausedTimerState =
            IF cts # NoClientTimer THEN StoredPausedState(cts.remainTime, cts) ELSE @,
        !.trainingSegments = CloseLastSegment(@, t)]

EndDoc(doc, t) ==
    [doc EXCEPT
        !.status = "ended",
        !.endTime = t,
        !.pausedAt = NULL,
        !.trainingSegments = CloseLastSegment(@, t),
        !.actualWorkoutDuration =
            IF Len(doc.trainingSegments) > 0
            THEN calculateActualWorkoutDuration(CloseLastSegment(doc.trainingSegments, t))
            ELSE @]

FinalSyncDoc(doc, completed, t) == [EndDoc(doc, t) EXCEPT !.completed = completed]

\* cleanup-paused-sessions: a session paused on an earlier day is ended at its pause
CleanupDoc(doc, t) ==
    IF doc.status = "paused" /\ doc.pausedAt # NULL /\ isNewDay(doc.pausedAt, t)
    THEN [doc EXCEPT !.status = "ended", !.endTime = doc.pausedAt, !.pausedAt = NULL]
    ELSE doc

---------------------------------------------------------------------------
(* The handlers, each request served without another one interleaving *)

\* updateOne({_id, userId}, ...) matched, findOne, the 200 response
PutCommit(u, id, req, arg, doc2, timer) ==
    /\ sessions' = [sessions EXCEPT ![id] = doc2]
    /\ response' = Resp(req, id, arg, 200, timer)
    /\ UNCHANGED <<now, inflight>>

\* updateOne matched nothing: 404, whatever the action
PutNotFound(u, id) ==
    /\ ~Matches(u, id)
    /\ response' = Resp("put", id, NoClientTimer, 404, NoTimer)
    /\ UNCHANGED <<sessions, now, inflight>>

Get(u) ==
    /\ \/ /\ NonEnded(u) = {}
          /\ response' = Resp("get", 0, NoClientTimer, 200, NoTimer)
       \/ \E i \in NonEnded(u) :
             response' = Resp("get", i, NoClientTimer, 200,
                              calculateTimerStatus(sessions[i], now))
    /\ UNCHANGED <<sessions, now, inflight>>

PostConflict(u) ==
    /\ NonEnded(u) # {}
    /\ response' = Resp("post", 0, NoClientTimer, 400, NoTimer)
    /\ UNCHANGED <<sessions, now, inflight>>

Post(u, goal, len) ==
    /\ NonEnded(u) = {}
    /\ Len(sessions) < MaxSessions
    /\ sessions' = Append(sessions, NewSession(u, goal, len, now))
    /\ response' = Resp("post", Len(sessions) + 1, NoClientTimer, 201, NoTimer)
    /\ UNCHANGED <<now, inflight>>

PutUpdateProgress(u, id, completed) ==
    /\ Matches(u, id)
    /\ LET doc2 == UpdateProgressDoc(sessions[id], completed, now)
       IN PutCommit(u, id, "updateProgress", NoClientTimer, doc2,
                    calculateTimerStatus(doc2, now))

PutPause(u, id, cts, displayed) ==
    /\ Matches(u, id)
    /\ LET doc2 == PauseDoc(sessions[id], now, cts, displayed)
       IN PutCommit(u, id, "pause", cts, doc2, calculateTimerStatus(doc2, now))

PutResume(u, id, compensateTime) ==
    /\ Matches(u, id)
    /\ Len(sessions[id].trainingSegments) < MaxSegments
    /\ LET resumeTimerState == sessions[id].pausedTimerState
           doc2 == ResumeDoc(sessions[id], now, compensateTime)
       IN IF resumeTimerState # NoTimerState
          THEN PutCommit(u, id, "resume", NoClientTimer, ClearPausedTimerState(doc2),
                         [remainTime |-> resumeTimerState.remainTime,
                          timerExpired |-> resumeTimerState.isExpired,
                          extraTime |-> resumeTimerState.extraTime])
          ELSE PutCommit(u, id, "resume", NoClientTimer, doc2,
                         calculateTimerStatus(doc2, now))

PutResumeToLastActivity(u, id, lrts) ==
    /\ Matches(u, id)
    /\ Len(sessions[id].trainingSegments) < MaxSegments
    /\ LET doc2 == ResumeToLastActivityDoc(sessions[id], now, lrts)
       IN PutCommit(u, id, "resumeToLastActivity", lrts, doc2,
                    calculateTimerStatus(doc2, now))

PutAutoPause(u, id, cts) ==
    /\ Matches(u, id)
    /\ LET doc2 == AutoPauseDoc(sessions[id], now, cts)
       IN PutCommit(u, id, "autoPause", cts, doc2, calculateTimerStatus(doc2, now))

PutFinalSync(u, id, completed) ==
    /\ Matches(u, id)
    /\ LET doc2 == FinalSyncDoc(sessions[id], completed, now)
       IN PutCommit(u, id, "finalSync", NoClientTimer, doc2,
                    calculateTimerStatus(doc2, now))

PutEnd(u, id) ==
    /\ Matches(u, id)
    /\ LET doc2 == EndDoc(sessions[id], now)
       IN PutCommit(u, id, "end", NoClientTimer, doc2, calculateTimerStatus(doc2, now))

\* the upserts of the cleanup: one per cleaned session, with its completed count
RECURSIVE CleanupSummaries(_)
CleanupSummaries(i) ==
    IF i > Len(sessions) THEN <<>>
    ELSE (IF CleanupDoc(sessions[i], now) # sessions[i]
          THEN <<[session |-> i, totalJumps |-> sessions[i].completed]>>
          ELSE <<>>) \o CleanupSummaries(i + 1)

Cleanup ==
    /\ Len(summaries) + Len(CleanupSummaries(1)) <= MaxSummaries
    /\ sessions' = [i \in 1..Len(sessions) |-> CleanupDoc(sessions[i], now)]
    /\ summaries' = summaries \o CleanupSummaries(1)
    /\ response' = Resp("cleanup", 0, NoClientTimer, 200, NoTimer)
    /\ UNCHANGED <<now, inflight>>

\* POST /daily-summaries: the day's record is created or incremented by totalJumps
PostDailySummary(id, totalJumps) ==
    /\ Len(summaries) < MaxSummaries
    /\ summaries' = Append(summaries, [session |-> id, totalJumps |-> totalJumps])

\* time passes; the last response has been delivered
Tick ==
    /\ now < MaxTime
    /\ Len(sessions) > 0
    /\ now' = now + 1
    /\ response' = NoResponse
    /\ UNCHANGED <<sessions, inflight>>

---------------------------------------------------------------------------
(* The POST handler with its two awaits apart: findOne, then insertOne *)

PostFindOne(s, u, goal, len) ==
    /\ inflight[s] = Idle
    /\ inflight' = [inflight EXCEPT ![s] =
          [pc |-> IF NonEnded(u) # {} THEN "existing" ELSE "insert",
           userId |-> u, goal |-> goal, sessionLen |-> len, startTime |-> now]]
    /\ UNCHANGED <<sessions, now, response>>

PostReject(s) ==
    /\ inflight[s].pc = "existing"
    /\ response' = Resp("post", 0, NoClientTimer, 400, NoTimer)
    /\ inflight' = [inflight EXCEPT ![s] = Idle]
    /\ UNCHANGED <<sessions, now>>

PostInsert(s) ==
    /\ inflight[s].pc = "insert"
    /\ Len(sessions) < MaxRaceSessions
    /\ sessions' = Append(sessions,
          NewSession(inflight[s].userId, inflight[s].goal, inflight[s].sessionLen,
                     inflight[s].startTime))
    /\ response' = Resp("post", Len(sessions) + 1, NoClientTimer, 201, NoTimer)
    /\ inflight' = [inflight EXCEPT ![s] = Idle]
    /\ UNCHANGED now

(* A pause or resume PUT taken one storage operation at a time.  A slot holds
   what the handler keeps across its awaits: its now (t), the payload, the index
   it read, the snapshot it read.  base is not program state: it is the document
   as it stood when the first of the overlapping PUTs began. *)

\* the slots of PUT handlers that have begun and not yet sent their response
Running == {s \in Slots : inflight[s].pc \in {"pauseUpdate", "resumeUpdate", "resumeClear"}}

\* the slots of PUT handlers that have sent their response
Done == {s \in Slots : inflight[s].pc = "done"}

BaseDoc(id) ==
    IF Running # {} THEN inflight[CHOOSE s \in Running : TRUE].base ELSE sessions[id]

\* pause: now, the snapshot to store, then findOne({_id, userId}) and the index of
\* the open last segment taken from it
PutPauseFindOne(s, u, id, cts) ==
    /\ inflight[s] = Idle
    /\ Done = {}
    /\ Matches(u, id)
    /\ inflight' = [inflight EXCEPT ![s] =
          [pc |-> "pauseUpdate", action |-> "pause", id |-> id, t |-> now, cts |-> cts,
           lastSegmentIndex |->
               IF /\ Len(sessions[id].trainingSegments) > 0
                  /\ Last(sessions[id].trainingSegments).end = NULL
               THEN Len(sessions[id].trainingSegments) ELSE 0,
           resumeTimerState |-> NoTimerState,
           base |-> BaseDoc(id)]]
    /\ UNCHANGED <<sessions, now, response>>

\* pause: updateOne with the fields computed from the earlier read, and the response
PutPauseUpdateOne(s) ==
    /\ inflight[s].pc = "pauseUpdate"
    /\ LET p == inflight[s]
           doc2 == [sessions[p.id] EXCEPT
                       !.status = "paused",
                       !.pausedAt = p.t,
                       !.pausedTimerState =
                           IF p.cts # NoClientTimer
                           THEN StoredPausedState(p.cts.remainTime, p.cts)
                           ELSE @,
                       !.trainingSegments =
                           IF p.lastSegmentIndex # 0
                           THEN [@ EXCEPT ![p.lastSegmentIndex].end = p.t]
                           ELSE @]
       IN /\ sessions' = [sessions EXCEPT ![p.id] = doc2]
          /\ response' = Resp("pause", p.id, p.cts, 200, calculateTimerStatus(doc2, now))
    /\ inflight' = [inflight EXCEPT ![s].pc = "done"]
    /\ UNCHANGED now

\* resume: now, then findOne({_id}) for the stored snapshot
PutResumeFindOne(s, u, id) ==
    /\ inflight[s] = Idle
    /\ Done = {}
    /\ Matches(u, id)
    /\ inflight' = [inflight EXCEPT ![s] =
          [pc |-> "resumeUpdate", action |-> "resume", id |-> id, t |-> now,
           cts |-> NoClientTimer,
           lastSegmentIndex |-> 0,
           resumeTimerState |-> sessions[id].pausedTimerState,
           base |-> BaseDoc(id)]]
    /\ UNCHANGED <<sessions, now, response>>

\* resume: updateOne with $set and $push, and the response
PutResumeUpdateOne(s) ==
    /\ inflight[s].pc = "resumeUpdate"
    /\ Len(sessions[inflight[s].id].trainingSegments) < MaxSegments
    /\ LET p == inflight[s]
           doc2 == ResumeDoc(sessions[p.id], p.t, NULL)
       IN /\ sessions' = [sessions EXCEPT ![p.id] = doc2]
          /\ response' =
                IF p.resumeTimerState # NoTimerState
                THEN Resp("resume", p.id, NoClientTimer, 200,
                          [remainTime |-> p.resumeTimerState.remainTime,
                           timerExpired |-> p.resumeTimerState.isExpired,
                           extraTime |-> p.resumeTimerState.extraTime])
                ELSE Resp("resume", p.id, NoClientTimer, 200,
                          calculateTimerStatus(doc2, now))
          /\ inflight' = [inflight EXCEPT ![s].pc =
                IF p.resumeTimerState # NoTimerState THEN "resumeClear" ELSE "done"]
    /\ UNCHANGED now

\* resume: the second updateOne, { $set: { pausedTimerState: null } }
PutResumeClear(s) ==
    /\ inflight[s].pc = "resumeClear"
    /\ sessions' = [sessions EXCEPT ![inflight[s].id] = ClearPausedTimerState(@)]
    /\ inflight' = [inflight EXCEPT ![s].pc = "done"]
    /\ UNCHANGED <<now, response>>

\* every PUT that had begun has sent its response: the slots are free again
PutsReturn ==
    /\ Running = {}
    /\ Done # {}
    /\ inflight' = [s \in Slots |-> Idle]
    /\ UNCHANGED <<sessions, now, response>>

---------------------------------------------------------------------------
(* Specifications *)

\* what the client's pauseWorkout / autoPause callback sends: its display, if it has one
OneClientTimer == [remainTime |-> MaxRemain, isExpired |-> FALSE, extraTime |-> 0]

\* a step of the training-sessions handler or of the clock: nothing of the client
\* and no daily summary is touched
Server(A) == A /\ UNCHANGED <<autoPauseTimer, summaries, clientVars>>

\* a run of the cleanup function
Janitor(A) == A /\ UNCHANGED <<autoPauseTimer, clientVars>>

\* a step of a WorkoutTracker control taken as a whole
Control(A) == A /\ UNCHANGED <<summaries, clientVars>>

\* Spec: the whole API, every request served to completion before the next one
Next ==
    \/ Server(Tick)
    \/ Janitor(Cleanup)
    \/ \E u \in Users :
        \/ Server(Get(u))
        \/ Server(PostConflict(u))
        \/ Server(Post(u, MaxCompleted, TimerLen))
        \/ \E id \in SessionIds :
            \/ Server(PutNotFound(u, id))
            \/ \E c \in 1..MaxCompleted : Server(PutUpdateProgress(u, id, c))
            \/ \E cts \in {NoClientTimer, OneClientTimer} :
                  Server(PutPause(u, id, cts, cts.remainTime))
            \/ Server(PutResume(u, id, NULL))
            \/ Server(PutResumeToLastActivity(u, id, OneClientTimer))
            \/ Server(PutAutoPause(u, id, OneClientTimer))
            \/ \E c \in 1..MaxCompleted : Server(PutFinalSync(u, id, c))
            \/ Server(PutEnd(u, id))

Spec == Init /\ [][Next]_vars

\* SpecTimer: the requests the timer derivation depends on, with every timer payload
ClientTimerInputs == ClientTimerStates \cup {NoClientTimer}

TimerNext ==
    \/ Server(Tick)
    \/ \E u \in Users :
        \/ Server(Get(u))
        \/ \E len \in {NULL, TimerLen} : Server(Post(u, MaxCompleted, len))
        \/ \E id \in SessionIds :
            \/ \E cts \in ClientTimerInputs : Server(PutPause(u, id, cts, cts.remainTime))
            \/ \E comp \in {NULL, 1} : Server(PutResume(u, id, comp))
            \/ \E lrts \in LastRepStates \cup {NoClientTimer} :
                  Server(PutResumeToLastActivity(u, id, lrts))

SpecTimer == Init /\ [][TimerNext]_vars

\* SpecRace: POST handlers of one owner interleaving at their awaits
RaceNext ==
    \/ Server(Tick)
    \/ \E s \in Slots :
        \/ \E u \in Users : Server(PostFindOne(s, u, MaxCompleted, TimerLen))
        \/ Server(PostReject(s))
        \/ Server(PostInsert(s))
    \/ \E u \in Users, id \in 1..MaxRaceSessions : Server(PutEnd(u, id))

SpecRace == Init /\ [][RaceNext]_vars

\* SpecPut: pause and resume PUTs on one session interleaving at their awaits
PutNext ==
    \/ Server(Tick)
    \/ \E u \in Users : Server(Post(u, MaxCompleted, TimerLen))
    \/ \E s \in Slots :
        \/ \E u \in Users, id \in SessionIds :
            \/ \E cts \in {NoClientTimer, OneClientTimer} :
                  Server(PutPauseFindOne(s, u, id, cts))
            \/ Server(PutResumeFindOne(s, u, id))
        \/ Server(PutPauseUpdateOne(s))
        \/ Server(PutResumeUpdateOne(s))
        \/ Server(PutResumeClear(s))
    \/ Server(PutsReturn)

SpecPut == Init /\ [][PutNext]_vars

(* SpecUI: the requests as the WorkoutTracker controls issue them.  The buttons
   are gated by the status of the session the client shows (taken here to be
   the stored one); the idle timeout is gated by nothing but its being armed. *)
StatusIs(u, id, allowed) == Matches(u, id) /\ sessions[id].status \in allowed

\* startWorkout: POST, then startAutoPauseTimer
startWorkout(u) ==
    /\ Post(u, MaxCompleted + 1, TimerLen)
    /\ autoPauseTimer' = TRUE

\* pauseWorkout: clearAutoPauseTimer, then the pause request with the displayed timer
pauseWorkout(u, id) ==
    /\ StatusIs(u, id, {"active"})
    /\ PutPause(u, id, OneClientTimer, OneClientTimer.remainTime)
    /\ autoPauseTimer' = FALSE

\* the timeout callback of startAutoPauseTimer: it sends autoPause for the session
\* it was armed for, whatever has happened to that session since
autoPauseFired(u, id) ==
    /\ autoPauseTimer
    /\ PutAutoPause(u, id, OneClientTimer)
    /\ autoPauseTimer' = FALSE

\* processRepAddition below the goal: updateProgress, then resetAutoPauseTimer
repAdded(u, id) ==
    /\ StatusIs(u, id, {"active"})
    /\ PutUpdateProgress(u, id, MaxCompleted)
    /\ autoPauseTimer' = TRUE

\* processRepAddition reaching the goal: updateProgress, resetAutoPauseTimer, then
\* finalSync with the same count and the daily summary; the idle timeout stays armed
goalReached(u, id) ==
    /\ StatusIs(u, id, {"active"})
    /\ PutFinalSync(u, id, sessions[id].goal)
    /\ PostDailySummary(id, sessions[id].goal)
    /\ autoPauseTimer' = TRUE
    /\ UNCHANGED clientVars

resumeWorkout(u, id) ==
    /\ StatusIs(u, id, {"paused"})
    /\ PutResume(u, id, NULL)
    /\ autoPauseTimer' = TRUE

resumeToLastActivity(u, id) ==
    /\ StatusIs(u, id, {"paused"})
    /\ PutResumeToLastActivity(u, id, OneClientTimer)
    /\ autoPauseTimer' = TRUE

\* endWorkout: the end request, the daily summary, then clearAutoPauseTimer
endWorkout(u, id) ==
    /\ StatusIs(u, id, {"active", "paused"})
    /\ PutEnd(u, id)
    /\ PostDailySummary(id, sessions[id].completed)
    /\ autoPauseTimer' = FALSE
    /\ UNCHANGED clientVars

\* startNewGoal after a finished workout: clearAutoPauseTimer
startNewGoal ==
    /\ autoPauseTimer
    /\ \E i \in 1..Len(sessions) : sessions[i].status = "ended"
    /\ autoPauseTimer' = FALSE
    /\ UNCHANGED <<sessions, now, response, inflight, summaries, clientVars>>

UiNext ==
    \/ Server(Tick)
    \/ Janitor(Cleanup)
    \/ startNewGoal
    \/ \E u \in Users :
        \/ Server(Get(u))
        \/ Control(startWorkout(u))
        \/ \E id \in SessionIds :
            \/ Control(pauseWorkout(u, id))
            \/ Control(autoPauseFired(u, id))
            \/ Control(repAdded(u, id))
            \/ goalReached(u, id)
            \/ Control(resumeWorkout(u, id))
            \/ Control(resumeToLastActivity(u, id))
            \/ endWorkout(u, id)

SpecUI == Init /\ [][UiNext]_vars

(* SpecClient: the rep-addition and end controls of WorkoutTracker, each handler
   advancing from one await to the next, so that handlers started before an
   earlier one has returned interleave.  A handler keeps the currentSession of
   the render it was started in. *)
ClientReps == 1..MaxReps

\* a faulty variant, to test the properties against: the remaining goal is not looked at
RepsAllowedUnchecked(session, reps) ==
    /\ session # NoSession
    /\ reps > 0

\* the checks of processRepAddition before it sends anything
RepsAllowed(session, reps) ==
    /\ session # NoSession
    /\ reps > 0
    /\ reps <= session.goal - session.completed

\* setCurrentSession(response.data)
ResponseData(id) ==
    [id |-> id, completed |-> sessions'[id].completed, goal |-> sessions'[id].goal,
     status |-> sessions'[id].status, startTime |-> sessions'[id].startTime,
     sessionLen |-> sessions'[id].sessionLen]

\* one run of the interval callback of startClientTimer
CountDownStep(c) ==
    LET newRemainTime == c.remainTime - 1
    IN [remainTime |-> IF newRemainTime > 0 THEN newRemainTime ELSE 0,
        isExpired |-> newRemainTime <= 0,
        extraTime |-> IF newRemainTime <= 0 THEN -newRemainTime ELSE 0]

RECURSIVE CountDown(_, _)
\* the interval callback run k times
CountDown(c, k) == IF k = 0 THEN c ELSE CountDown(CountDownStep(c), k - 1)

\* startClientTimer: the display set to initialRemainTime and counting from now on
startClientTimer(initialRemainTime) ==
    [state |-> [remainTime |-> initialRemainTime,
                isExpired |-> initialRemainTime <= 0,
                extraTime |-> IF initialRemainTime <= 0 THEN -initialRemainTime ELSE 0],
     lastSync |-> now,
     running |-> TRUE]

\* the clientTimer of the component state right now: the interval has run once a
\* second since startClientTimer; NoClientTimer stands for null
Display ==
    IF clientTimer = NoDisplay THEN NoClientTimer
    ELSE IF clientTimer.running
         THEN CountDown(clientTimer.state, Seconds(now - clientTimer.lastSync))
         ELSE clientTimer.state

\* startTimerSync called by a handler whose currentSession is session and whose
\* clientTimer is display: the interval callback keeps both; at is its last run
startTimerSync(session, display) ==
    [session |-> session, hasTimer |-> display # NoClientTimer, at |-> now]

\* the timeouts that have neither fired nor been cleared
Pending == {k \in DOMAIN timeouts : timeouts[k].pending}

\* clearTimeout(handle); nothing happens for null or for a timeout that is over
clearTimeout(ts, handle) ==
    [k \in DOMAIN ts |-> IF k = handle THEN [ts[k] EXCEPT !.pending = FALSE] ELSE ts[k]]

\* startAutoPauseTimer(id) run by a closure whose autoPauseTimer is handle and whose
\* clientTimer is display: the callback it sets keeps that display
startAutoPauseTimer(handle, id, display) ==
    /\ Len(timeouts) < MaxTimers
    /\ timeouts' = Append(clearTimeout(timeouts, handle),
                          [at |-> now, session |-> id, clientTimer |-> display,
                           pending |-> TRUE])
    /\ timerHandle' = Len(timeouts) + 1
    /\ autoPauseTimer' = TRUE

\* clearAutoPauseTimer run by a closure whose autoPauseTimer is handle
clearAutoPauseTimer(handle) ==
    /\ timeouts' = clearTimeout(timeouts, handle)
    /\ timerHandle' = IF handle # 0 THEN 0 ELSE timerHandle
    /\ autoPauseTimer' = ({k \in Pending : k # handle} # {})

\* startWorkout: the POST, setCurrentSession(response.data), startClientTimer and
\* startAutoPauseTimer, the last with the clientTimer of the render of the click
startWorkoutSession(u, len) ==
    /\ currentSession = NoSession
    /\ Post(u, ClientGoal, len)
    /\ currentSession' = ResponseData(Len(sessions) + 1)
    /\ clientTimer' = IF len # NULL THEN startClientTimer(len) ELSE clientTimer
    /\ startAutoPauseTimer(timerHandle, Len(sessions) + 1, Display)
    /\ clientLastRepAt' = now
    /\ syncInterval' = IF len # NULL THEN startTimerSync(currentSession, Display)
                       ELSE syncInterval
    /\ timerExpiredModals' = 0
    /\ UNCHANGED <<summaries, handlers>>

\* addReps / addQuickReps: processRepAddition up to its updateProgress request
processRepAdditionCall(h, reps) ==
    /\ handlers[h].pc = "done"
    /\ RepsAllowed(currentSession, reps)
    /\ handlers' = [handlers EXCEPT ![h] =
          [pc |-> "updateProgress", session |-> currentSession,
           newCompleted |-> currentSession.completed + reps,
           timer |-> timerHandle, display |-> Display, lastRep |-> NoClientTimer]]
    /\ clientLastRepAt' = now
    /\ UNCHANGED <<syncInterval, timerExpiredModals>>
    /\ UNCHANGED <<sessions, now, response, inflight, autoPauseTimer, summaries,
                   currentSession, timeouts, timerHandle, clientTimer>>

\* the updateProgress request served, setCurrentSession, resetAutoPauseTimer; on to
\* finalSync if the count of this handler reaches the goal
processRepAdditionPut(u, h) ==
    /\ handlers[h].pc = "updateProgress"
    /\ PutUpdateProgress(u, handlers[h].session.id, handlers[h].newCompleted)
    /\ currentSession' = ResponseData(handlers[h].session.id)
    /\ startAutoPauseTimer(handlers[h].timer, handlers[h].session.id, handlers[h].display)
    /\ handlers' = [handlers EXCEPT ![h].pc =
          IF handlers[h].newCompleted >= handlers[h].session.goal
          THEN "finalSync" ELSE "done"]
    /\ UNCHANGED <<summaries, clientTimer, clientLastRepAt,
                   syncInterval, timerExpiredModals>>

\* the finalSync request served
processRepAdditionFinalSync(u, h) ==
    /\ handlers[h].pc = "finalSync"
    /\ PutFinalSync(u, handlers[h].session.id, handlers[h].newCompleted)
    /\ handlers' = [handlers EXCEPT ![h].pc = "summary"]
    /\ UNCHANGED <<autoPauseTimer, summaries, currentSession, timeouts, timerHandle,
                   clientTimer, clientLastRepAt,
                   syncInterval, timerExpiredModals>>

\* the daily summary posted, setCurrentSession(null)
processRepAdditionSummary(h) ==
    /\ handlers[h].pc = "summary"
    /\ PostDailySummary(handlers[h].session.id, handlers[h].newCompleted)
    /\ currentSession' = NoSession
    /\ handlers' = [handlers EXCEPT ![h].pc = "done"]
    /\ UNCHANGED <<sessions, now, response, inflight, autoPauseTimer, timeouts,
                   timerHandle, clientTimer, clientLastRepAt,
                   syncInterval, timerExpiredModals>>

\* the end control: endWorkout up to its end request
endWorkoutCall(h) ==
    /\ handlers[h].pc = "done"
    /\ currentSession # NoSession
    /\ handlers' = [handlers EXCEPT ![h] =
          [pc |-> "end", session |-> currentSession,
           newCompleted |-> currentSession.completed,
           timer |-> timerHandle, display |-> Display, lastRep |-> NoClientTimer]]
    /\ UNCHANGED <<sessions, now, response, inflight, autoPauseTimer, summaries,
                   currentSession, timeouts, timerHandle, clientTimer, clientLastRepAt,
                   syncInterval, timerExpiredModals>>

\* the end request served
endWorkoutPut(u, h) ==
    /\ handlers[h].pc = "end"
    /\ PutEnd(u, handlers[h].session.id)
    /\ handlers' = [handlers EXCEPT ![h].pc = "endSummary"]
    /\ UNCHANGED <<autoPauseTimer, summaries, currentSession, timeouts, timerHandle,
                   clientTimer, clientLastRepAt,
                   syncInterval, timerExpiredModals>>

\* the daily summary posted with currentSession.completed, setCurrentSession(null),
\* clearAutoPauseTimer, stopClientTimer
endWorkoutSummary(h) ==
    /\ handlers[h].pc = "endSummary"
    /\ PostDailySummary(handlers[h].session.id, handlers[h].session.completed)
    /\ currentSession' = NoSession
    /\ clearAutoPauseTimer(handlers[h].timer)
    /\ clientTimer' = NoDisplay
    /\ handlers' = [handlers EXCEPT ![h].pc = "done"]
    /\ syncInterval' = NoSync
    /\ UNCHANGED <<sessions, now, response, inflight, clientLastRepAt, timerExpiredModals>>

ClientNext ==
    \/ \E u \in Users :
        \/ startWorkoutSession(u, NULL)
        \/ \E h \in HandlerSlots :
            \/ processRepAdditionPut(u, h)
            \/ processRepAdditionFinalSync(u, h)
            \/ endWorkoutPut(u, h)
    \/ \E h \in HandlerSlots :
        \/ \E reps \in ClientReps : processRepAdditionCall(h, reps)
        \/ processRepAdditionSummary(h)
        \/ endWorkoutCall(h)
        \/ endWorkoutSummary(h)

SpecClient == Init /\ [][ClientNext]_vars

\* the clock moves; the interval callback of startClientTimer raises the modal when
\* the countdown it keeps goes from above zero to zero
ClientTick ==
    /\ Tick
    /\ timerExpiredModals' =
          IF /\ clientTimer # NoDisplay
             /\ clientTimer.running
             /\ Display.remainTime > 0
             /\ CountDown(clientTimer.state,
                          Seconds(now + 1 - clientTimer.lastSync)).remainTime <= 0
          THEN timerExpiredModals + 1
          ELSE timerExpiredModals
    /\ UNCHANGED <<autoPauseTimer, summaries, currentSession, handlers, timeouts,
                   timerHandle, clientTimer, clientLastRepAt, syncInterval>>

(* SpecIdle: a session with a countdown, rep additions and the idle timeouts
   of the client.  Time passes; a timeout set at t runs its callback at
   t + IdleTimeout or later, unless it was cleared before. *)

\* the callback of a timeout set by startAutoPauseTimer: the autoPause request with
\* the clientTimer of its closure; when the request succeeds and the following GET
\* returns a session, setCurrentSession and pauseClientTimer
autoPauseTimeout(u, k) ==
    /\ k \in Pending
    /\ now >= timeouts[k].at + IdleTimeout
    /\ PutAutoPause(u, timeouts[k].session, timeouts[k].clientTimer)
    /\ timeouts' = clearTimeout(timeouts, k)
    /\ autoPauseTimer' = (Pending \ {k} # {})
    /\ LET id == timeouts[k].session
           refreshed == response'.code = 200 /\ sessions'[id].status # "ended"
       IN /\ currentSession' = IF refreshed THEN ResponseData(id) ELSE currentSession
          /\ clientTimer' = IF refreshed /\ clientTimer # NoDisplay
                            THEN [clientTimer EXCEPT !.state = Display, !.running = FALSE]
                            ELSE clientTimer
          /\ syncInterval' = IF refreshed THEN NoSync ELSE syncInterval
    /\ UNCHANGED <<summaries, handlers, timerHandle, clientLastRepAt, timerExpiredModals>>

IdleNext ==
    \/ ClientTick
    \/ \E u \in Users :
        \/ startWorkoutSession(u, TimerLen)
        \/ \E k \in 1..MaxTimers : autoPauseTimeout(u, k)
        \/ \E h \in HandlerSlots :
            \/ processRepAdditionPut(u, h)
            \/ processRepAdditionFinalSync(u, h)
    \/ \E h \in HandlerSlots :
        \/ \E reps \in ClientReps : processRepAdditionCall(h, reps)
        \/ processRepAdditionSummary(h)

SpecIdle == Init /\ [][IdleNext]_vars

(* SpecLifecycle: the pause and resume controls of a session with a countdown.
   A request is sent when its control is activated, with what the handler
   computed then; it is served, and its response applied, in a later step. *)

\* pauseClientTimer: the interval is stopped, the display kept
pauseClientTimer ==
    IF clientTimer # NoDisplay
    THEN [clientTimer EXCEPT !.state = Display, !.running = FALSE]
    ELSE clientTimer

\* response.data.remainTime || response.data.sessionLen
RemainTimeOrSessionLen(timer, sessionLen) ==
    IF timer.remainTime # NULL /\ timer.remainTime # 0 THEN timer.remainTime ELSE sessionLen

\* the lastRepTimerState that resumeToLastActivity computes from the session start
\* and the last rep instant
lastRepTimerState(session, actualLastRepAt) ==
    LET elapsedAtLastRep == Seconds(actualLastRepAt - session.startTime)
        remainTimeAtLastRep ==
            IF session.sessionLen - elapsedAtLastRep > 0
            THEN session.sessionLen - elapsedAtLastRep ELSE 0
    IN [remainTime |-> remainTimeAtLastRep,
        isExpired |-> remainTimeAtLastRep <= 0,
        extraTime |-> IF remainTimeAtLastRep <= 0
                      THEN (IF remainTimeAtLastRep < 0 THEN -remainTimeAtLastRep
                            ELSE remainTimeAtLastRep)
                      ELSE 0]

\* the handlers of the pause and resume controls waiting for their response
Lifecycle == {h \in HandlerSlots : handlers[h].pc \in {"pause", "resume", "resumeToLastActivity"}}

\* handleTimerClick on an active session: pauseWorkout up to its request
pauseWorkoutCall(h) ==
    /\ handlers[h].pc = "done"
    /\ currentSession.status = "active"
    /\ handlers' = [handlers EXCEPT ![h] =
          [pc |-> "pause", session |-> currentSession,
           newCompleted |-> currentSession.completed,
           timer |-> timerHandle, display |-> Display, lastRep |-> NoClientTimer]]
    /\ clientTimer' = pauseClientTimer
    /\ clearAutoPauseTimer(timerHandle)
    /\ UNCHANGED <<sessions, now, response, inflight, summaries, currentSession,
                   clientLastRepAt, timerExpiredModals>>
    /\ syncInterval' = NoSync

\* the pause request served, setCurrentSession(response.data)
pauseWorkoutPut(u, h) ==
    /\ handlers[h].pc = "pause"
    /\ PutPause(u, handlers[h].session.id, handlers[h].display,
                handlers[h].display.remainTime)
    /\ currentSession' = ResponseData(handlers[h].session.id)
    /\ handlers' = [handlers EXCEPT ![h].pc = "done"]
    /\ UNCHANGED <<autoPauseTimer, summaries, timeouts, timerHandle, clientTimer,
                   clientLastRepAt,
                   syncInterval, timerExpiredModals>>

\* handleTimerClick on a paused session, or the resume control: resumeWorkout up
\* to its request
resumeWorkoutCall(h) ==
    /\ handlers[h].pc = "done"
    /\ currentSession.status = "paused"
    /\ handlers' = [handlers EXCEPT ![h] =
          [pc |-> "resume", session |-> currentSession,
           newCompleted |-> currentSession.completed,
           timer |-> timerHandle, display |-> Display, lastRep |-> NoClientTimer]]
    /\ UNCHANGED <<sessions, now, response, inflight, autoPauseTimer, summaries,
                   currentSession, timeouts, timerHandle, clientTimer, clientLastRepAt,
                   syncInterval, timerExpiredModals>>

\* what resumeWorkout and resumeToLastActivity do with the response:
\* setCurrentSession, startAutoPauseTimer, startClientTimer
ResumeResponseApplied(h) ==
    LET id == handlers[h].session.id
    IN /\ currentSession' = ResponseData(id)
       /\ startAutoPauseTimer(handlers[h].timer, id, handlers[h].display)
       /\ clientTimer' =
             IF sessions'[id].sessionLen # NULL
             THEN startClientTimer(
                      RemainTimeOrSessionLen(response'.timer, sessions'[id].sessionLen))
             ELSE clientTimer
       /\ syncInterval' =
             IF sessions'[id].sessionLen # NULL
             THEN startTimerSync(handlers[h].session, handlers[h].display)
             ELSE syncInterval
       /\ handlers' = [handlers EXCEPT ![h].pc = "done"]

\* the resume request served and its response applied
resumeWorkoutPut(u, h) ==
    /\ handlers[h].pc = "resume"
    /\ PutResume(u, handlers[h].session.id, NULL)
    /\ ResumeResponseApplied(h)
    /\ UNCHANGED <<summaries, clientLastRepAt, timerExpiredModals>>

\* the resume-to-last-activity control: resumeToLastActivity up to its request
resumeToLastActivityCall(h) ==
    /\ handlers[h].pc = "done"
    /\ currentSession.status = "paused"
    /\ currentSession.sessionLen # NULL
    /\ clientLastRepAt # NULL
    /\ handlers' = [handlers EXCEPT ![h] =
          [pc |-> "resumeToLastActivity", session |-> currentSession,
           newCompleted |-> currentSession.completed,
           timer |-> timerHandle, display |-> Display,
           lastRep |-> lastRepTimerState(currentSession, clientLastRepAt)]]
    /\ UNCHANGED <<sessions, now, response, inflight, autoPauseTimer, summaries,
                   currentSession, timeouts, timerHandle, clientTimer, clientLastRepAt,
                   syncInterval, timerExpiredModals>>

\* the resumeToLastActivity request served and its response applied
resumeToLastActivityPut(u, h) ==
    /\ handlers[h].pc = "resumeToLastActivity"
    /\ PutResumeToLastActivity(u, handlers[h].session.id, handlers[h].lastRep)
    /\ ResumeResponseApplied(h)
    /\ UNCHANGED <<summaries, clientLastRepAt, timerExpiredModals>>

LifecycleNext ==
    \/ ClientTick
    \/ \E u \in Users :
        \/ startWorkoutSession(u, TimerLen)
        \/ \E h \in HandlerSlots :
            \/ processRepAdditionPut(u, h)
            \/ pauseWorkoutPut(u, h)
            \/ resumeWorkoutPut(u, h)
            \/ resumeToLastActivityPut(u, h)
    \/ \E h \in HandlerSlots :
        \/ processRepAdditionCall(h, 1)
        \/ pauseWorkoutCall(h)
        \/ resumeWorkoutCall(h)
        \/ resumeToLastActivityCall(h)

SpecLifecycle == Init /\ [][LifecycleNext]_vars

(* SpecDisplay: the countdown the client shows, its reconciliation interval,
   the expiry modal, and a reload of the page. *)

\* setClientTimer with the values of a server response
ServerBaseline(timer) ==
    [remainTime |-> IF timer.timerExpired THEN 0
                    ELSE IF timer.remainTime # NULL THEN timer.remainTime ELSE 0,
     isExpired |-> timer.timerExpired,
     extraTime |-> IF timer.extraTime # NULL THEN timer.extraTime ELSE 0]

\* a run of the interval callback of startTimerSync: it looks at the currentSession
\* and clientTimer of its closure, and only then fetches and replaces the baseline
timerSyncTick(u) ==
    /\ syncInterval # NoSync
    /\ now >= syncInterval.at + SyncPeriod
    /\ syncInterval' = [syncInterval EXCEPT !.at = now]
    /\ IF /\ syncInterval.session # NoSession
          /\ syncInterval.session.status = "active"
          /\ syncInterval.session.sessionLen # NULL
          /\ syncInterval.hasTimer
       THEN /\ Get(u)
            /\ IF response'.id = syncInterval.session.id
               THEN /\ currentSession' = ResponseData(response'.id)
                    /\ clientTimer' = [clientTimer EXCEPT
                                          !.state = ServerBaseline(response'.timer),
                                          !.lastSync = now]
               ELSE UNCHANGED <<currentSession, clientTimer>>
       ELSE UNCHANGED <<sessions, now, response, inflight, currentSession, clientTimer>>
    /\ UNCHANGED <<autoPauseTimer, summaries, handlers, timeouts, timerHandle,
                   clientLastRepAt, timerExpiredModals>>

\* the page is loaded again: the component starts from its initial state, fetches
\* the session and applies it (applyValidatedSessionState); the handlers, timeouts
\* and intervals of the page before are gone, clientLastRepAt comes from localStorage
pageReload(u) ==
    /\ currentSession # NoSession
    /\ Get(u)
    /\ handlers' = [h \in HandlerSlots |-> NoHandler]
    /\ LET id == response'.id
           gone == [k \in DOMAIN timeouts |-> [timeouts[k] EXCEPT !.pending = FALSE]]
       IN IF id = 0
          THEN /\ currentSession' = NoSession
               /\ clientTimer' = NoDisplay
               /\ syncInterval' = NoSync
               /\ timeouts' = gone
               /\ timerHandle' = 0
               /\ autoPauseTimer' = FALSE
          ELSE LET remainTime ==
                       RemainTimeOrSessionLen(response'.timer, sessions[id].sessionLen)
                   active == sessions[id].status = "active"
               IN /\ currentSession' = ResponseData(id)
                  /\ clientTimer' =
                        IF sessions[id].sessionLen = NULL THEN NoDisplay
                        ELSE IF active THEN startClientTimer(remainTime)
                        ELSE [state |-> [remainTime |-> remainTime,
                                         isExpired |-> response'.timer.timerExpired,
                                         extraTime |-> response'.timer.extraTime],
                              lastSync |-> now, running |-> FALSE]
                  /\ syncInterval' =
                        IF sessions[id].sessionLen # NULL /\ active
                        THEN startTimerSync(NoSession, NoClientTimer)
                        ELSE NoSync
                  /\ IF active /\ Len(timeouts) < MaxTimers
                     THEN /\ timeouts' = Append(gone,
                                [at |-> now, session |-> id,
                                 clientTimer |-> NoClientTimer, pending |-> TRUE])
                          /\ timerHandle' = Len(timeouts) + 1
                          /\ autoPauseTimer' = TRUE
                     ELSE /\ timeouts' = gone
                          /\ timerHandle' = 0
                          /\ autoPauseTimer' = FALSE
    /\ UNCHANGED <<summaries, clientLastRepAt, timerExpiredModals>>

DisplayNext ==
    \/ ClientTick
    \/ \E u \in Users :
        \/ startWorkoutSession(u, TimerLen)
        \/ timerSyncTick(u)
        \/ pageReload(u)
        \/ \E h \in HandlerSlots :
            \/ pauseWorkoutPut(u, h)
            \/ resumeWorkoutPut(u, h)
            \/ resumeToLastActivityPut(u, h)
    \/ \E h \in HandlerSlots :
        \/ pauseWorkoutCall(h)
        \/ resumeWorkoutCall(h)
        \/ resumeToLastActivityCall(h)

SpecDisplay == Init /\ [][DisplayNext]_vars

(* SpecCountdown: the countdown of startClientTimer on its own, started from any
   small value, ticking for some seconds, its baseline replaced now and then. *)

CountdownInit ==
    /\ sessions = <<>>
    /\ now = 0
    /\ response = NoResponse
    /\ inflight = [s \in Slots |-> Idle]
    /\ autoPauseTimer = FALSE
    /\ summaries = <<>>
    /\ currentSession = NoSession
    /\ handlers = [h \in HandlerSlots |-> NoHandler]
    /\ timeouts = <<>>
    /\ timerHandle = 0
    /\ clientTimer \in {startClientTimer(r) : r \in 0..MaxCount}
    /\ clientLastRepAt = NULL
    /\ syncInterval = NoSync
    /\ timerExpiredModals = 0

\* one second passes: the interval callback of startClientTimer runs once
secondElapsed ==
    /\ Seconds(now) < MaxSeconds
    /\ now' = now + TicksPerSec
    /\ UNCHANGED <<sessions, response, inflight, autoPauseTimer, summaries, clientVars>>

\* startClientTimer called again with initialRemainTime
countdownRestarted(initialRemainTime) ==
    /\ clientTimer' = startClientTimer(initialRemainTime)
    /\ UNCHANGED <<sessions, now, response, inflight, autoPauseTimer, summaries,
                   currentSession, handlers, timeouts, timerHandle, clientLastRepAt,
                   syncInterval, timerExpiredModals>>

\* the baseline replaced with the timer fields of a server response
baselineReplaced(timer) ==
    /\ clientTimer' = [clientTimer EXCEPT !.state = ServerBaseline(timer), !.lastSync = now]
    /\ UNCHANGED <<sessions, now, response, inflight, autoPauseTimer, summaries,
                   currentSession, handlers, timeouts, timerHandle, clientLastRepAt,
                   syncInterval, timerExpiredModals>>

CountdownNext ==
    \/ secondElapsed
    \/ \E r \in 0..MaxCount : countdownRestarted(r)
    \/ \E x \in (0 - MaxExtra)..MaxCount : baselineReplaced(TimerResult(x))

SpecCountdown == CountdownInit /\ [][CountdownNext]_vars

(* SpecRetry: the idle timeouts when the autoPause request can fail.  The
   server is unreachable at most until OutageEnd.  Rep additions are served only
   while the timeout they set can still come due before the clock stops. *)

\* the callback of a timeout whose autoPause request fails: the error is caught and
\* logged, nothing else happens
autoPauseTimeoutFailed(k) ==
    /\ k \in Pending
    /\ now >= timeouts[k].at + IdleTimeout
    /\ now <= OutageEnd
    /\ timeouts' = clearTimeout(timeouts, k)
    /\ autoPauseTimer' = (Pending \ {k} # {})
    /\ response' = Resp("autoPause", timeouts[k].session, timeouts[k].clientTimer,
                        503, NoTimer)
    /\ UNCHANGED <<sessions, now, inflight, summaries, currentSession, handlers,
                   timerHandle, clientTimer, clientLastRepAt, syncInterval,
                   timerExpiredModals>>

\* the callbacks that are due run
TimeoutsRun == \E u \in Users, k \in 1..MaxTimers : autoPauseTimeout(u, k)

RetryNext ==
    \/ ClientTick
    \/ TimeoutsRun
    \/ \E k \in 1..MaxTimers : autoPauseTimeoutFailed(k)
    \/ \E u \in Users :
        \/ startWorkoutSession(u, TimerLen)
        \/ \E h \in HandlerSlots :
              now + IdleTimeout <= MaxTime /\ processRepAdditionPut(u, h)
    \/ \E h \in HandlerSlots : processRepAdditionCall(h, 1)

\* time passes, and a callback that is due is run by the browser
SpecRetry == Init /\ [][RetryNext]_vars /\ WF_vars(ClientTick) /\ WF_vars(TimeoutsRun)

(* SpecInput: the API called with valid and with invalid payloads *)

\* the smallest goal the client lets through (goal < 100 is refused in startWorkout)
MinGoal == 100

(* a PUT whose action is none of the handler's: updateFields stays empty and
   updateOne is sent { $set: {} }, which the database either refuses (the catch
   answers 500) or applies as an update that changes nothing (200) *)
PutUnknownAction(u, id) ==
    /\ Matches(u, id)
    /\ \/ response' = Resp("unknown", id, NoClientTimer, 500, NoTimer)
       \/ response' = Resp("unknown", id, NoClientTimer, 200,
                           calculateTimerStatus(sessions[id], now))
    /\ UNCHANGED <<sessions, now, inflight>>

InputNext ==
    \/ Server(Tick)
    \/ \E u \in Users :
        \/ Server(Get(u))
        \/ \E goal \in {MinGoal - 1, MinGoal} : Server(Post(u, goal, TimerLen))
        \/ \E id \in SessionIds :
            \/ \E c \in {NULL, MaxCompleted} : Server(PutUpdateProgress(u, id, c))
            \/ Server(PutUnknownAction(u, id))
            \/ Server(PutEnd(u, id))

SpecInput == Init /\ [][InputNext]_vars

(* SpecOwners: two authenticated users and one session; either of them may own it *)
Callers == 1..NumCallers

\* the cleanup endpoint: it asks for no authentication and serves any caller alike
CleanupRequest(u) == Cleanup

\* the requests caller u makes
RequestBy(u) ==
    \/ Server(Get(u))
    \/ Server(Post(u, MaxCompleted, TimerLen))
    \/ Janitor(CleanupRequest(u))
    \/ \E id \in SessionIds :
        \/ Server(PutNotFound(u, id))
        \/ Server(PutPause(u, id, OneClientTimer, OneClientTimer.remainTime))
        \/ Server(PutResume(u, id, NULL))
        \/ Server(PutEnd(u, id))

OwnersNext ==
    \/ Server(Tick)
    \/ \E u \in Callers : RequestBy(u)

SpecOwners == Init /\ [][OwnersNext]_vars
---------------------------------------------------------------------------
(* Properties *)

Docs == 1..Len(sessions)

HasTimer(doc) == doc.sessionLen # NULL /\ doc.sessionLen # 0 /\ doc.startTime # NULL

OpenSegments(doc) ==
    {k \in 1..Len(doc.trainingSegments) : doc.trainingSegments[k].end = NULL}

RECURSIVE SetSum(_, _)
SetSum(f, S) ==
    IF S = {} THEN 0
    ELSE LET x == CHOOSE y \in S : TRUE IN f[x] + SetSum(f, S \ {x})

\* whole seconds between the end of each closed segment and the start of the next one
GapSeconds(doc) ==
    LET segs == doc.trainingSegments
        closed == {k \in 1..(Len(segs) - 1) : segs[k].end # NULL}
    IN SetSum([k \in closed |-> Seconds(segs[k + 1].start - segs[k].end)], closed)

\* ticks covered by the segments of the ledger
LedgerTicks(doc) ==
    LET segs == doc.trainingSegments
    IN SetSum([k \in 1..Len(segs) |-> segs[k].end - segs[k].start], 1..Len(segs))

Compensation(doc) == IF doc.timerCompensation = NULL THEN 0 ELSE doc.timerCompensation

\* a timer status as one signed number of seconds: remaining, or minus the overtime
Signed(ts) == IF ts.timerExpired THEN 0 - ts.extraTime ELSE ts.remainTime

Snapshot(doc) ==
    [remainTime |-> doc.pausedTimerState.remainTime,
     timerExpired |-> doc.pausedTimerState.isExpired,
     extraTime |-> doc.pausedTimerState.extraTime]

(* C1: once a session's status is ended, no later request changes its
   document, so its status stays ended. *)
C1_EndedIsFinal ==
    [][\A i \in Docs : sessions[i].status = "ended" => sessions'[i] = sessions[i]]_vars

(* C2: every owner has at most one session that is not ended, also when POST
   requests of one owner are served concurrently. *)
C2_OneNonEndedPerOwner == \A u \in Users : Cardinality(NonEnded(u)) <= 1

(* C3: an active session has exactly one segment with end = null, an ended
   session has none. *)
C3_SegmentsWellFormed ==
    \A i \in Docs :
        /\ sessions[i].status = "active" => Cardinality(OpenSegments(sessions[i])) = 1
        /\ sessions[i].status = "ended" => OpenSegments(sessions[i]) = {}

(* C4: while a session is paused with a stored snapshot, the derivation returns
   the snapshot at every query instant; the snapshot a pause stores is the
   timer state its request carried. *)
C4_PausedReturnsSnapshot ==
    /\ \A i \in Docs :
          (/\ sessions[i].status = "paused"
           /\ sessions[i].pausedTimerState # NoTimerState
           /\ HasTimer(sessions[i]))
          => \A t \in 0..MaxTime :
                calculateTimerStatus(sessions[i], t) = Snapshot(sessions[i])
    /\ (/\ response.req = "pause"
        /\ response.code = 200
        /\ response.arg # NoClientTimer
        /\ HasTimer(sessions[response.id]))
       => /\ Snapshot(sessions[response.id]) =
                [remainTime |-> response.arg.remainTime,
                 timerExpired |-> response.arg.isExpired,
                 extraTime |-> response.arg.extraTime]
          /\ response.timer = Snapshot(sessions[response.id])

\* a GET at least a second into a pause, where recomputing from the ledger would differ
C4_Witness ==
    \E i \in Docs :
        /\ sessions[i].status = "paused"
        /\ sessions[i].pausedTimerState # NoTimerState
        /\ HasTimer(sessions[i])
        /\ now >= sessions[i].pausedAt + TicksPerSec
        /\ response.req = "get" /\ response.id = i
        /\ response.timer = Snapshot(sessions[i])
        /\ GeneralCase(sessions[i], now) # Snapshot(sessions[i])

(* C5: an ended session has no open segment and its actualWorkoutDuration is
   the sum of end - start over its segments, whichever path ended it. *)
C5_LedgerClosedAtEnd ==
    \A i \in Docs :
        sessions[i].status = "ended" =>
            /\ OpenSegments(sessions[i]) = {}
            /\ sessions[i].actualWorkoutDuration = LedgerTicks(sessions[i])

(* C6: for an active session with a timer and no resume override the derivation
   returns R = target - ((now - startTime) - gaps) + compensation when R > 0,
   and remaining 0, expired, overtime -R otherwise, each duration taken in
   whole seconds; with no pause and no compensation, one second past the
   target it returns expired with overtime 1. *)
C6_GeneralCaseFormula ==
    \A i \in Docs :
        LET doc == sessions[i]
            R == doc.sessionLen - (Seconds(now - doc.startTime) - GapSeconds(doc))
                 + Compensation(doc)
            ts == calculateTimerStatus(doc, now)
        IN (/\ doc.status = "active"
            /\ HasTimer(doc)
            /\ doc.resumeTimerOverride = NoTimerState)
           => /\ R > 0 => ts = [remainTime |-> R, timerExpired |-> FALSE, extraTime |-> 0]
              /\ R <= 0 => ts = [remainTime |-> 0, timerExpired |-> TRUE, extraTime |-> 0 - R]
              /\ (/\ Len(doc.trainingSegments) = 1
                  /\ doc.timerCompensation = NULL
                  /\ now - doc.startTime = (doc.sessionLen + 1) * TicksPerSec)
                 => ts = [remainTime |-> 0, timerExpired |-> TRUE, extraTime |-> 1]

\* a GET of an active session that was paused for a second or more and has expired
C6_Witness ==
    \E i \in Docs :
        /\ sessions[i].status = "active"
        /\ HasTimer(sessions[i])
        /\ sessions[i].resumeTimerOverride = NoTimerState
        /\ GapSeconds(sessions[i]) > 0
        /\ response.req = "get" /\ response.id = i
        /\ response.timer.timerExpired

(* C7: while a session is paused without a stored snapshot, the derivation
   returns target - (active seconds up to pausedAt) + compensation at every
   query instant of the pause, to within the one-second rounding. *)
C7_PausedWithoutSnapshotFrozen ==
    \A i \in Docs :
        LET doc == sessions[i]
            atPause == doc.sessionLen
                       - (Seconds(doc.pausedAt - doc.startTime) - GapSeconds(doc))
                       + Compensation(doc)
            got == Signed(calculateTimerStatus(doc, now))
        IN (/\ doc.status = "paused"
            /\ doc.pausedAt # NULL
            /\ doc.pausedTimerState = NoTimerState
            /\ HasTimer(doc))
           => /\ got - atPause <= 1
              /\ atPause - got <= 1

(* C8: right after a resumeToLastActivity that carries a timer state with
   remaining r the derivation returns remaining r; s seconds later, the session
   still active, it returns r - s, or expired with overtime s - r once r - s <= 0. *)
C8_OverrideCountsFromResume ==
    /\ (/\ response.req = "resumeToLastActivity"
        /\ response.code = 200
        /\ response.arg # NoClientTimer
        /\ HasTimer(sessions[response.id]))
       => /\ response.timer = TimerResult(response.arg.remainTime)
          /\ sessions[response.id].resumeTimerOverride.remainTime = response.arg.remainTime
          /\ sessions[response.id].resumeTimerOverride.at = now
    /\ \A i \in Docs :
          LET doc == sessions[i]
              r == doc.resumeTimerOverride.remainTime
              s == Seconds(now - doc.resumeTimerOverride.at)
              ts == calculateTimerStatus(doc, now)
          IN (/\ doc.status = "active"
              /\ HasTimer(doc)
              /\ doc.resumeTimerOverride # NoTimerState
              /\ Last(doc.trainingSegments).start = doc.resumeTimerOverride.at)
             => /\ r - s > 0 =>
                     ts = [remainTime |-> r - s, timerExpired |-> FALSE, extraTime |-> 0]
                /\ r - s <= 0 =>
                     ts = [remainTime |-> 0, timerExpired |-> TRUE, extraTime |-> s - r]

\* a GET two seconds after a resumeToLastActivity that carried remaining 1
C8_Witness ==
    \E i \in Docs :
        /\ sessions[i].status = "active"
        /\ HasTimer(sessions[i])
        /\ sessions[i].resumeTimerOverride # NoTimerState
        /\ sessions[i].resumeTimerOverride.remainTime = 1
        /\ Last(sessions[i].trainingSegments).start = sessions[i].resumeTimerOverride.at
        /\ Len(sessions[i].trainingSegments) > 1
        /\ now - sessions[i].resumeTimerOverride.at >= 2 * TicksPerSec
        /\ response.req = "get" /\ response.id = i
        /\ response.timer = [remainTime |-> 0, timerExpired |-> TRUE, extraTime |-> 1]

(* C9: no paused snapshot is stored while a session is active: every resume
   path clears it. *)
C9_NoSnapshotWhileActive ==
    \A i \in Docs :
        sessions[i].status = "active" => sessions[i].pausedTimerState = NoTimerState

(* C10: the paused snapshot and the resume override are never both present. *)
C10_SnapshotExcludesOverride ==
    \A i \in Docs :
        ~(/\ sessions[i].pausedTimerState # NoTimerState
          /\ sessions[i].resumeTimerOverride # NoTimerState)

(* C11: no request made by one user changes a session owned by another user. *)
C11_ForeignSessionUntouched ==
    [][\A u \in Callers :
          RequestBy(u) =>
              \A i \in Docs : sessions[i].userId # u => sessions'[i] = sessions[i]]_vars

Handled(i) == {k \in 1..Len(summaries) : summaries[k].session = i}

Returned == \A h \in HandlerSlots : handlers[h].pc = "done"

(* C12: a session gets at most one daily-summary upsert; once it is ended and
   every handler has returned it has exactly one, carrying its final completed
   count. *)
C12_OneSummaryPerSession ==
    \A i \in Docs :
        /\ Cardinality(Handled(i)) <= 1
        /\ (sessions[i].status = "ended" /\ Returned) =>
              /\ Cardinality(Handled(i)) = 1
              /\ \A k \in Handled(i) : summaries[k].totalJumps = sessions[i].completed

(* C13: while a session is not ended a request never lowers its stored
   completed count. *)
C13_CompletedNeverDecreases ==
    [][\A i \in Docs :
          sessions[i].status # "ended" => sessions'[i].completed >= sessions[i].completed]_vars

(* C14: through the client's rep additions, rapid ones included, the stored
   completed count never exceeds the goal. *)
C14_CompletedWithinGoal ==
    \A i \in Docs : sessions[i].completed <= sessions[i].goal

\* two rep additions started from the same count whose sum would pass the goal, both
\* applied by the server
C14_Witness ==
    \E h1, h2 \in HandlerSlots :
        /\ h1 # h2
        /\ handlers[h1].session = handlers[h2].session
        /\ handlers[h1].session # NoSession
        /\ handlers[h1].pc \notin {"updateProgress", "end", "endSummary"}
        /\ handlers[h2].pc \notin {"updateProgress", "end", "endSummary"}
        /\ handlers[h1].newCompleted + handlers[h2].newCompleted
              - handlers[h1].session.completed > handlers[h1].session.goal
        /\ response.req = "updateProgress"

(* C15: invalid input is rejected before any mutation: no session is stored with
   a goal below the minimum, no updateProgress without a count changes the
   stored count, and a PUT with an unrecognised action is answered 400. *)
C15_InvalidInputRejected ==
    /\ \A i \in Docs :
          /\ sessions[i].goal >= MinGoal
          /\ sessions[i].completed # NULL
    /\ response.req = "unknown" => response.code = 400

(* C16: a pause or autoPause served for a session that is already paused leaves
   its status, pausedAt, segment list and snapshot as they were, and the timer
   derivation returns what it returned before the repeat. *)
C16_RepeatedPauseIsNoOp ==
    [][\A i \in Docs :
          (/\ sessions[i].status = "paused"
           /\ response'.req \in {"pause", "autoPause"}
           /\ response'.code = 200
           /\ response'.id = i)
          => /\ sessions'[i].status = sessions[i].status
             /\ sessions'[i].pausedAt = sessions[i].pausedAt
             /\ sessions'[i].trainingSegments = sessions[i].trainingSegments
             /\ sessions'[i].pausedTimerState = sessions[i].pausedTimerState
             /\ calculateTimerStatus(sessions'[i], now') =
                   calculateTimerStatus(sessions[i], now)]_vars

\* the instant of the latest start or updateProgress of session id as the client
\* saw it: each of them sets a timeout in the same step
LastArmed(id) ==
    LET of == {k \in DOMAIN timeouts : timeouts[k].session = id}
    IN CHOOSE t \in {timeouts[k].at : k \in of} : \A k \in of : timeouts[k].at <= t

\* what a GET shows when the countdown shown is c
ShownAs(c) ==
    [remainTime |-> c.remainTime, timerExpired |-> c.isExpired, extraTime |-> c.extraTime]

\* C17: when an idle timeout fires on an active session with a countdown, the
\* session becomes paused, the snapshot stored is the countdown the client shows at
\* that instant, and the derived remaining time is that snapshot
C17_AutoPauseSnapshotIsDisplay ==
    [][\A u \in Users, k \in 1..MaxTimers :
          (/\ autoPauseTimeout(u, k)
           /\ sessions[timeouts[k].session].status = "active"
           /\ HasTimer(sessions[timeouts[k].session]))
          => LET id == timeouts[k].session
             IN /\ sessions'[id].status = "paused"
                /\ sessions'[id].pausedTimerState # NoTimerState
                /\ Snapshot(sessions'[id]) = ShownAs(Display)
                /\ calculateTimerStatus(sessions'[id], now) = ShownAs(Display)]_vars

\* C18: at most one idle timeout is pending, and a timeout fires only on an active
\* session and IdleTimeout or more after the latest start or updateProgress
C18_OneIdleTimer ==
    [][/\ Cardinality(Pending') <= 1
       /\ \A u \in Users, k \in 1..MaxTimers :
             autoPauseTimeout(u, k)
             => /\ sessions[timeouts[k].session].status = "active"
                /\ now - LastArmed(timeouts[k].session) >= IdleTimeout]_vars


\* the document after a pause with timer state cts and a plain resume, both at t
PauseThenResume(doc, t, cts) ==
    LET paused == PauseDoc(doc, t, cts, cts.remainTime)
        resumed == ResumeDoc(paused, t, NULL)
    IN IF paused.pausedTimerState # NoTimerState
       THEN ClearPausedTimerState(resumed)
       ELSE resumed

\* C19: for an active session with a countdown, a pause and a resume at the same
\* instant leave the derived remaining time within one second of what it was,
\* whatever timer state the pause carries
C19_PauseResumeRoundTrip ==
    \A i \in Docs :
        (sessions[i].status = "active" /\ HasTimer(sessions[i]))
        => \A cts \in ClientTimerInputs :
              LET before == Signed(calculateTimerStatus(sessions[i], now))
                  after == Signed(calculateTimerStatus(
                                     PauseThenResume(sessions[i], now, cts), now))
              IN after - before \in {-1, 0, 1}

\* a resume has been served at the instant of the pause before it, on a session
\* with a countdown that has both a compensation and an override stored, and the
\* derived remaining time is not what the countdown started with
C19_Witness ==
    /\ response.req = "resume"
    /\ response.code = 200
    /\ LET doc == sessions[response.id]
           n == Len(doc.trainingSegments)
       IN /\ HasTimer(doc)
          /\ doc.status = "active"
          /\ n >= 2
          /\ doc.trainingSegments[n].start = now
          /\ doc.trainingSegments[n - 1].end = now
          /\ doc.timerCompensation # NULL
          /\ doc.resumeTimerOverride # NoTimerState
          /\ Signed(calculateTimerStatus(doc, now)) # doc.sessionLen


\* the PUT held in slot record p served as one atomic read-modify-write on doc
ApplyPut(p, doc) ==
    IF p.action = "pause"
    THEN PauseDoc(doc, p.t, p.cts, p.cts.remainTime)
    ELSE IF doc.pausedTimerState # NoTimerState
         THEN ClearPausedTimerState(ResumeDoc(doc, p.t, NULL))
         ELSE ResumeDoc(doc, p.t, NULL)

\* the documents that the finished PUTs give when served one after the other
SerialResults ==
    {ApplyPut(inflight[o[2]], ApplyPut(inflight[o[1]], inflight[o[1]].base)) :
        o \in {q \in Done \X Done : q[1] # q[2]}}
    \cup {ApplyPut(inflight[s], inflight[s].base) : s \in {r \in Done : Done = {r}}}

\* C20: when the PUTs that overlapped on a session have all been served, the
\* document is what serving them one after the other, in some order, gives
C20_PutsSerializable ==
    (Running = {} /\ Done # {})
    => \A s \in Done : sessions[inflight[s].id] \in SerialResults


\* C21: at most one pause, resume or resumeToLastActivity request of the client
\* is awaiting its response
C21_NoOverlappingLifecycle == Cardinality(Lifecycle) <= 1


\* C22: a run of the reconciliation interval while the client has an active session
\* with a running countdown fetches the session and sets the countdown to the
\* remaining, expired and overtime values the server derives at that instant
C22_SyncReplacesBaseline ==
    [][\A u \in Users :
          (/\ timerSyncTick(u)
           /\ currentSession.status = "active"
           /\ currentSession.sessionLen # NULL
           /\ clientTimer.running)
          => /\ response'.req = "get"
             /\ clientTimer'.lastSync = now
             /\ clientTimer'.state =
                   ServerBaseline(calculateTimerStatus(sessions[currentSession.id], now))]_vars


\* C23: k seconds after the countdown was set to a baseline it shows the baseline's
\* remaining less k while that is above zero, and from then on expired with an
\* overtime that has grown by one for every second past zero
C23_CountdownCounts ==
    clientTimer.running
    => LET k == Seconds(now - clientTimer.lastSync)
           base == clientTimer.state
       IN Display =
             IF base.remainTime - k > 0
             THEN [remainTime |-> base.remainTime - k, isExpired |-> FALSE, extraTime |-> 0]
             ELSE IF k = 0 THEN base
             ELSE [remainTime |-> 0, isExpired |-> TRUE,
                   extraTime |-> base.extraTime + (k - base.remainTime)]


\* C24: the expiry modal is raised at most once in a session
C24_ModalOnce == timerExpiredModals <= 1


\* C25: after a resume, a resume to last activity or a reload of the page, on a
\* session with a countdown, the countdown of the client is set to the remaining,
\* expired and overtime values the server returned
C25_BaselineIsServerState ==
    [][\A u \in Users :
          (/\ \/ pageReload(u)
              \/ \E h \in HandlerSlots :
                    resumeWorkoutPut(u, h) \/ resumeToLastActivityPut(u, h)
           /\ response'.code = 200
           /\ response'.id # 0
           /\ response'.timer # NoTimer)
          => ShownAs(clientTimer'.state) = response'.timer]_vars


\* the offsets a resume may report
Offsets == 1..MaxExtra

\* C26: a resume that reports an offset c adds c to the stored compensation
C26_CompensationAccumulates ==
    [][\A u \in Users, id \in SessionIds, c \in Offsets :
          PutResume(u, id, c)
          => sessions'[id].timerCompensation =
                (IF sessions[id].timerCompensation = NULL THEN 0
                 ELSE sessions[id].timerCompensation) + c]_vars


\* C27: a session that is active is paused, or otherwise leaves the active state,
\* in the end, also when an autoPause request of the client has failed
C27_AutoPauseRetried ==
    \A i \in SessionIds :
        (i <= Len(sessions) /\ sessions[i].status = "active")
        ~> (i <= Len(sessions) /\ sessions[i].status # "active")


\* the document after a pause at t1 and a plain resume at t2
PausedBetween(doc, t1, t2) ==
    LET paused == PauseDoc(doc, t1, NoClientTimer, NULL)
        resumed == ResumeDoc(paused, t2, NULL)
    IN IF paused.pausedTimerState # NoTimerState
       THEN ClearPausedTimerState(resumed)
       ELSE resumed

\* C28: for an active session with a countdown, pausing now and resuming at any
\* later instant gives, at that instant, the remaining time derived now (within the
\* second lost to rounding): the paused time is not counted
C28_PausedTimeNotCounted ==
    \A i \in Docs :
        (sessions[i].status = "active" /\ HasTimer(sessions[i]))
        => \A t \in now..MaxTime :
              LET before == Signed(calculateTimerStatus(sessions[i], now))
                  after == Signed(calculateTimerStatus(
                                     PausedBetween(sessions[i], now, t), t))
              IN after - before \in {-1, 0, 1}


\* C29: when a plain resume is served for a paused session with a countdown and a
\* stored snapshot, the remaining time derived right after it is within one second
\* of the snapshot that was derived while the session was paused
C29_ResumeWithoutJump ==
    [][\A u \in Users, id \in SessionIds :
          (/\ PutResume(u, id, NULL)
           /\ sessions[id].status = "paused"
           /\ sessions[id].pausedTimerState # NoTimerState
           /\ HasTimer(sessions[id]))
          => Signed(calculateTimerStatus(sessions'[id], now))
                - Signed(calculateTimerStatus(sessions[id], now)) \in {-1, 0, 1}]_vars


\* the seconds of the gaps of the ledger that lie before t
GapsBefore(doc, t) ==
    SetSum([k \in 1..(Len(doc.trainingSegments) - 1) |->
               Seconds(doc.trainingSegments[k + 1].start - doc.trainingSegments[k].end)],
           {k \in 1..(Len(doc.trainingSegments) - 1) :
               /\ doc.trainingSegments[k].end # NULL
               /\ doc.trainingSegments[k + 1].start <= t})

\* what the general case of the derivation gives at t for an active session
DerivedAt(doc, t) ==
    TimerResult(doc.sessionLen - (Seconds(t - doc.startTime) - GapsBefore(doc, t)))

\* C30: the lastRepTimerState that the client sends with resumeToLastActivity, for
\* a session without compensation or override, is the timer state the derivation
\* gave at the instant of the last rep
C30_OverrideIsStateAtLastRep ==
    [][\A h \in HandlerSlots :
          (/\ resumeToLastActivityCall(h)
           /\ sessions[currentSession.id].resumeTimerOverride = NoTimerState
           /\ sessions[currentSession.id].timerCompensation = NULL)
          => ShownAs(handlers'[h].lastRep)
                = DerivedAt(sessions[currentSession.id], clientLastRepAt)]_vars

====
